---- MODULE Spec2Model ----
(***************************************************************************)
(* A model of squidnote_unpack.py: the selection of notes from a Squid     *)
(* Note backup archive and the extraction of every selected note into an   *)
(* archive of its own.                                                     *)
(*                                                                         *)
(* Strings are sequences of one-character strings.  A zip archive is a bag *)
(* of members (a name and its bytes); the bytes of a copied asset are      *)
(* named after the source member they come from, the bytes of an sqlite    *)
(* file are the statements that built it, in the order they were run.      *)
(* Local time is UTC.                                                      *)
(***************************************************************************)
EXTENDS Integers, Sequences, FiniteSets, Bags, TLC

\* ------------------------------------------------------------------------
\* Bounds of the model
\* ------------------------------------------------------------------------

\* invocations of the program in one behaviour
MaxRuns == 2
\* hash seeds of an invocation are 0..MaxSeed (they order the iteration of a set)
MaxSeed == 1
\* modification times of the notes are whole days 0..MaxDay plus a time of day
MaxDay == 1

\* ------------------------------------------------------------------------
\* Strings
\* ------------------------------------------------------------------------

Digits == <<"0", "1", "2", "3", "4", "5", "6", "7", "8", "9">>

DigitSet == {Digits[k] : k \in 1..10}

Letters == {"a", "b", "e", "x", "y", "z", "U", "n", "t", "i", "l", "d"}

\* the last decimal digit of n, and strftime's zero-padded decimal fields
Digit(n) == Digits[(n % 10) + 1]

Pad2(n) == <<Digit(n \div 10), Digit(n)>>

Pad4(n) == <<Digit(n \div 1000), Digit(n \div 100)>> \o Pad2(n)

RECURSIVE Flatten(_)
Flatten(ss) == IF ss = <<>> THEN <<>> ELSE Head(ss) \o Flatten(Tail(ss))

\* ------------------------------------------------------------------------
\* slugify
\* ------------------------------------------------------------------------

\* unicodedata.normalize('NFKD', c).encode('ascii', 'ignore'): an accented
\* letter keeps its base letter, any other non-ASCII character is dropped
Asciify(c) ==
    CASE c = "é" -> <<"e">>
      [] c = "€" -> <<>>
      [] OTHER -> <<c>>

\* re.sub(r'[^-\w]', '_', value) on one character
WordOrDash(c) == IF c \in Letters \cup DigitSet \cup {"_", "-"} THEN c ELSE "_"

RECURSIVE LStrip(_)
LStrip(s) ==
    IF s /= <<>> /\ Head(s) \in {"-", "_", "/"} THEN LStrip(Tail(s)) ELSE s

RECURSIVE RStrip(_)
RStrip(s) ==
    IF s /= <<>> /\ s[Len(s)] \in {"-", "_", "/"}
    THEN RStrip(SubSeq(s, 1, Len(s) - 1))
    ELSE s

slugify(value) ==
    LET ascii == Flatten([k \in 1..Len(value) |-> Asciify(value[k])])
        word == [k \in 1..Len(ascii) |-> WordOrDash(ascii[k])]
    IN  RStrip(LStrip(word))

\* ------------------------------------------------------------------------
\* datetime.fromtimestamp(ts/1000.0).strftime(...)
\* ------------------------------------------------------------------------

\* the civil date of a day number counted from 1970-01-01
CivilFromDays(days) ==
    LET z == days + 719468
        era == z \div 146097
        doe == z - era * 146097
        yoe == (doe - doe \div 1460 + doe \div 36524 - doe \div 146096) \div 365
        doy == doe - (365 * yoe + yoe \div 4 - yoe \div 100)
        mp == (5 * doy + 2) \div 153
        m == IF mp < 10 THEN mp + 3 ELSE mp - 9
    IN  [year |-> yoe + era * 400 + (IF m <= 2 THEN 1 ELSE 0),
         month |-> m,
         day |-> doy - (153 * mp + 2) \div 5 + 1]

fromtimestamp(ts) ==
    LET secs == ts \div 1000
        date == CivilFromDays(secs \div 86400)
        rem == secs % 86400
    IN  [year |-> date.year, month |-> date.month, day |-> date.day,
         hour |-> rem \div 3600, minute |-> (rem % 3600) \div 60, second |-> rem % 60]

\* strftime('%Y%m%d-%H%M%S')
StampCompact(ts) ==
    LET t == fromtimestamp(ts)
    IN  Pad4(t.year) \o Pad2(t.month) \o Pad2(t.day) \o <<"-">>
          \o Pad2(t.hour) \o Pad2(t.minute) \o Pad2(t.second)

\* strftime('%Y-%m-%d %H:%M:%S')
StampDisplay(ts) ==
    LET t == fromtimestamp(ts)
    IN  Pad4(t.year) \o <<"-">> \o Pad2(t.month) \o <<"-">> \o Pad2(t.day) \o <<" ">>
          \o Pad2(t.hour) \o <<":">> \o Pad2(t.minute) \o <<":">> \o Pad2(t.second)

\* ------------------------------------------------------------------------
\* re.compile and re.match
\* ------------------------------------------------------------------------

\* A pattern is a sequence of tokens: ".", ".*" or a literal character.
\* re.match anchors at the start of the string and not at its end.
RECURSIVE Match(_, _)
Match(regex, s) ==
    IF regex = <<>> THEN TRUE
    ELSE IF Head(regex) = ".*"
         THEN \E k \in 0..Len(s) :
                  /\ \A j \in 1..k : s[j] /= "\n"
                  /\ Match(Tail(regex), SubSeq(s, k + 1, Len(s)))
    ELSE /\ s /= <<>>
         /\ \/ Head(regex) = "." /\ Head(s) /= "\n"
            \/ Head(regex) = Head(s)
         /\ Match(Tail(regex), Tail(s))

\* args.regex is <<>> when -r is absent or empty
Compile(pattern) == IF pattern = <<>> THEN <<".*">> ELSE pattern


\* ------------------------------------------------------------------------
\* The backup archive: papyrus.db and the asset members
\* ------------------------------------------------------------------------

IdX == <<"1", "x">>

IdY == <<"2", "y">>

\* names of archive members: directory, stem, extension
InfoMember == <<"", "info", ".json">>

DbMember == <<"", "note", ".db">>

MetaMember(dir) == <<dir, "", ".metadata">>

PageMember(id) == <<"data/pages", id, ".page">>

ImageMember(id) == <<"data/imgs", id, "">>

DocMember(id) == <<"data/docs", id, "">>

NoteRow(id, name, modified) == [id |-> id, name |-> name, modified |-> modified]

PageRow(id, noteId, pageNum, documentId) ==
    [id |-> id, noteId |-> noteId, created |-> 0, modified |-> 0,
     pageNum |-> pageNum, documentId |-> documentId]

ImageRow(imageId, pageId) == [imageId |-> imageId, pageId |-> pageId, toDelete |-> 0]

DocRow(documentId, noteId) == [documentId |-> documentId, noteId |-> noteId]

Names == {<<>>, IdX, <<"a", " ", "b">>, <<"a", "_", "b">>}

\* 01:01:01.001 on the days 0..MaxDay after 1970-01-01
Stamps == {d * 86400000 + 3661001 : d \in 0..MaxDay}

PageTables ==
    { <<PageRow("p1", IdX, 1, ""), PageRow("p2", IdX, 2, ""), PageRow("p3", IdY, 1, "")>>,
      <<PageRow("p2", IdX, 2, "d1"), PageRow("p3", IdY, 1, ""), PageRow("p1", IdX, 1, "")>> }

ImageTables ==
    { <<>>,
      <<ImageRow("i1", "p1"), ImageRow("i2", "p1"), ImageRow("i2", "p2"), ImageRow("i3", "p2")>>,
      <<ImageRow("i1", "p1"), ImageRow("i1", "p1")>>,
      <<ImageRow("i2", "p3"), ImageRow("i2", "p2")>> }

DocTables ==
    { <<>>,
      <<DocRow("d1", IdX)>>,
      <<DocRow("d1", IdX), DocRow("d2", IdX)>>,
      <<DocRow("d2", IdX), DocRow("d2", IdX), DocRow("d1", IdY)>> }

AllAssets ==
    {PageMember(p) : p \in {"p1", "p2", "p3"}}
      \cup {ImageMember(im) : im \in {"i1", "i2", "i3"}}
      \cup {DocMember(d) : d \in {"d1", "d2"}}

\* the asset members a backup may lack
Absent == {{}, {PageMember("p2")}, {ImageMember("i2")}, {DocMember("d2")}}

Backup(note, page, image, document, members) ==
    [note |-> note, page |-> page, image |-> image, document |-> document,
     members |-> members]

\* backups of two notes without pages: the names and the times vary
NoteSources ==
    { Backup(<<NoteRow(IdX, n1, t1), NoteRow(IdY, n2, t2)>>, <<>>, <<>>, <<>>, {}) :
        n1 \in Names, n2 \in Names, t1 \in Stamps, t2 \in Stamps }

\* backups of two notes with pages, images and documents: the assets vary
AssetSources ==
    { Backup(<<NoteRow(IdX, <<"a", " ", "b">>, 3661001), NoteRow(IdY, IdX, 0)>>,
             pt, it, dt, AllAssets \ ab) :
        pt \in PageTables, it \in ImageTables, dt \in DocTables, ab \in Absent }

\* the backups run more than once
TwiceSources ==
    { b \in AssetSources : Len(b.image) = 4 /\ Len(b.document) = 2 /\ b.page[1].id = "p1" }

\* ------------------------------------------------------------------------
\* The command line and the environment of one invocation
\* ------------------------------------------------------------------------

Patterns ==
    { <<>>, <<"1">>, IdX, IdY, <<"a", ".">>, <<".*", "2">> }

Dirs == {"out1", "out2"}

Args ==
    [regex : Patterns, list : BOOLEAN, extract : BOOLEAN, all : BOOLEAN,
     dry_run : BOOLEAN, cwd : Dirs]

NoArgs == [regex |-> <<>>, list |-> FALSE, extract |-> FALSE, all |-> FALSE,
           dry_run |-> FALSE, cwd |-> "out1"]

HashSeeds == 0..MaxSeed

\* ------------------------------------------------------------------------
\* State
\* ------------------------------------------------------------------------

VARIABLES
    src,            \* the backup archive (never written)
    disk,           \* the output files, by directory and file name
    runs,           \* invocations left
    pc,             \* where main is
    args,           \* the parsed command line
    hashseed,       \* the hash seed of this invocation (PYTHONHASHSEED)
    note_list,      \* the selected notes
    stdout,         \* the lines of the listing
    i,              \* the index of the note being extracted, from 1
    page_sql_vals,  \* the page rows of the note being extracted
    images,         \* the image identifiers collected for it
    pdfs,           \* the document identifiers collected for it
    todo            \* what the running copy loop has yet to iterate over

vars == <<src, disk, runs, pc, args, hashseed, note_list, stdout, i,
          page_sql_vals, images, pdfs, todo>>

\* ------------------------------------------------------------------------
\* Selection of the notes
\* ------------------------------------------------------------------------

Untitled == <<"U", "n", "t", "i", "t", "l", "e", "d", "_">>

IsSorted(rows) ==
    \A j, k \in 1..Len(rows) : j < k => rows[j].modified <= rows[k].modified

\* the orders of the rows of a table
Orders(table) ==
    { [k \in 1..Len(table) |-> table[f[k]]] :
        f \in { g \in [1..Len(table) -> 1..Len(table)] :
                  \A j, k \in 1..Len(table) : j /= k => g[j] /= g[k] } }

\* the query without its ORDER BY: the rows in any order
QueryNotesUnordered(table) == Orders(table)

\* SELECT id, name, modified FROM note ORDER BY modified ASC: rows of equal
\* time come in either order
QueryNotes(table) == { rows \in Orders(table) : IsSorted(rows) }

\* one row of the query, its name and time fixed
FixRow(row) ==
    [uuid |-> row.id,
     nn |-> IF row.name = <<>> THEN Untitled \o StampCompact(row.modified) ELSE row.name,
     mtime |-> StampDisplay(row.modified),
     ts |-> row.modified]

\* the selection without the match on the identifier
SelectedByNameOrTime(regex, n) ==
    Match(regex, n.nn) \/ Match(regex, n.mtime)

Selected(regex, n) ==
    Match(regex, n.uuid) \/ Match(regex, n.nn) \/ Match(regex, n.mtime)

SelectNotes(query_results, regex) ==
    LET fixed == [k \in 1..Len(query_results) |-> FixRow(query_results[k])]
        keep(n) == Selected(regex, n)
    IN  SelectSeq(fixed, keep)

\* one line of the listing: index, total, identifier, time, name
ListLine(k, n_notes, n) == <<k, n_notes, n.uuid, n.mtime, n.nn>>


\* ------------------------------------------------------------------------
\* The note.db of one note
\* ------------------------------------------------------------------------

\* the tables of the CREATE TABLE statements of sql_cmds
SqlCmds == <<"android_metadata", "document", "folder", "image", "manifest", "note", "page">>

\* sql_cmds is a set: the order a for loop visits it in varies with the hash
\* seed of the process
IterOrder(cmds, seed) ==
    [k \in 1..Len(cmds) |-> cmds[((k - 1 + seed) % Len(cmds)) + 1]]

\* SELECT documentId, noteId FROM document WHERE noteId IS uuid
QueryDocuments(uuid) ==
    LET own(r) == r.noteId = uuid
        rows == SelectSeq(src.document, own)
    IN  [k \in 1..Len(rows) |-> DocRow(rows[k].documentId, rows[k].noteId)]

\* SELECT id, noteId, created, modified, pageNum FROM page WHERE noteId IS uuid
QueryPages(uuid) ==
    LET own(r) == r.noteId = uuid
        rows == SelectSeq(src.page, own)
    IN  [k \in 1..Len(rows) |->
            [id |-> rows[k].id, noteId |-> rows[k].noteId, created |-> rows[k].created,
             modified |-> rows[k].modified, pageNum |-> rows[k].pageNum]]

\* SELECT imageId, pageId, toDelete FROM image WHERE pageId IS page_uuid
QueryImages(page_uuid) ==
    LET own(r) == r.pageId = page_uuid
    IN  SelectSeq(src.image, own)

\* the documentId of the first row instead of the last
FirstDocumentId(pdf_sql_vals) ==
    IF pdf_sql_vals = <<>> THEN "" ELSE pdf_sql_vals[1].documentId

\* documentId after the loop over pdf_sql_vals: '' or that of the last row
LastDocumentId(pdf_sql_vals) ==
    IF pdf_sql_vals = <<>> THEN "" ELSE pdf_sql_vals[Len(pdf_sql_vals)].documentId

\* page_sql_vals_ext
ExtendPages(pages, documentId) ==
    [k \in 1..Len(pages) |->
        [id |-> pages[k].id, noteId |-> pages[k].noteId, created |-> pages[k].created,
         modified |-> pages[k].modified, pageNum |-> pages[k].pageNum,
         documentId |-> documentId]]

\* the image rows of the pages, page after page
ImageRows(pages) == Flatten([k \in 1..Len(pages) |-> QueryImages(pages[k].id)])

\* the file note.db: the tables in the order they were created, and the rows
\* of each in the order they were inserted
NoteDb(n, seed) ==
    LET pdf_sql_vals == QueryDocuments(n.uuid)
        pages == QueryPages(n.uuid)
    IN  [schema |-> IterOrder(SqlCmds, seed),
         android_metadata |-> <<"en_GB">>,
         note |-> <<[id |-> n.uuid, name |-> n.nn, created |-> n.ts, modified |-> n.ts]>>,
         document |-> pdf_sql_vals,
         page |-> ExtendPages(pages, LastDocumentId(pdf_sql_vals)),
         image |-> ImageRows(pages),
         folder |-> <<>>,
         manifest |-> <<>>]

\* a list of identifiers as it is, every occurrence kept
Listed(ids) ==
    [x \in {ids[k] : k \in 1..Len(ids)} |-> Cardinality({k \in 1..Len(ids) : ids[k] = x})]

\* list( set( ... ) ) of a list of identifiers: each once, in any order
Dedup(ids) == SetToBag({ids[k] : k \in 1..Len(ids)})

\* what is left to iterate over after one turn of the loop on x
Rest(left, x) == left (-) SetToBag({x})

\* ------------------------------------------------------------------------
\* The output files
\* ------------------------------------------------------------------------

\* slugify(nn) + '.squidnote' in the working directory
sn_file(n) == <<args.cwd, slugify(n.nn) \o <<".squidnote">>>>

\* zipfile.ZipFile( sn_file, 'w' ): an empty archive, whatever was there
NewArchive ==
    [names |-> EmptyBag, info |-> <<>>, db |-> <<>>, empty |-> {}, closed |-> FALSE]

Put(f, k, v) == [x \in DOMAIN f \cup {k} |-> IF x = k THEN v ELSE f[x]]

\* sn.open( name, 'w' ) and the bytes written to it
WriteMember(sn, name) == [sn EXCEPT !.names = @ (+) SetToBag({name})]

\* the member opened and closed with nothing written to it
WriteEmpty(sn, name) ==
    [sn EXCEPT !.names = @ (+) SetToBag({name}), !.empty = @ \cup {name}]

Current == note_list[i]

sn == disk[sn_file(Current)]

\* ------------------------------------------------------------------------
\* main
\* ------------------------------------------------------------------------

Init ==
    /\ src \in NoteSources \cup AssetSources
    /\ disk = <<>>
    /\ runs = 1
    /\ pc = "init"
    /\ args = NoArgs
    /\ hashseed = 0
    /\ note_list = <<>>
    /\ stdout = <<>>
    /\ i = 0
    /\ page_sql_vals = <<>>
    /\ images = <<>>
    /\ pdfs = <<>>
    /\ todo = EmptyBag

InitTwice ==
    /\ src \in TwiceSources
    /\ disk = <<>>
    /\ runs = MaxRuns
    /\ pc = "init"
    /\ args = NoArgs
    /\ hashseed = 0
    /\ note_list = <<>>
    /\ stdout = <<>>
    /\ i = 0
    /\ page_sql_vals = <<>>
    /\ images = <<>>
    /\ pdfs = <<>>
    /\ todo = EmptyBag

\* a new process: the command line is parsed, the backup opened, the notes
\* queried and selected, and the branch on args.list and args.extract taken
Start ==
    /\ pc \in {"init", "done", "failed"}
    /\ runs > 0
    /\ runs' = runs - 1
    /\ \E a \in Args, seed \in HashSeeds, query_results \in QueryNotes(src.note) :
          /\ args' = a
          /\ hashseed' = seed
          /\ note_list' = SelectNotes(query_results, Compile(a.regex))
          /\ pc' = IF a.list THEN "list" ELSE IF a.extract THEN "loop" ELSE "end"
    /\ stdout' = <<>>
    /\ i' = 1
    /\ page_sql_vals' = <<>>
    /\ images' = <<>>
    /\ pdfs' = <<>>
    /\ todo' = EmptyBag
    /\ UNCHANGED <<src, disk>>

\* if args.list: one line for every selected note
List ==
    /\ pc = "list"
    /\ stdout' = [k \in 1..Len(note_list) |-> ListLine(k, Len(note_list), note_list[k])]
    /\ pc' = "done"
    /\ UNCHANGED <<src, disk, runs, args, hashseed, note_list, i, page_sql_vals,
                   images, pdfs, todo>>

\* the output archive of the next note is opened and info.json written
OpenArchive ==
    /\ pc = "loop"
    /\ i <= Len(note_list)
    /\ disk' = Put(disk, sn_file(Current),
                   [WriteMember(NewArchive, InfoMember) EXCEPT
                      !.info = <<[id |-> Current.uuid, name |-> Current.nn,
                                  modified |-> Current.ts, version |-> 1]>>])
    /\ images' = <<>>
    /\ pdfs' = <<>>
    /\ pc' = "db"
    /\ UNCHANGED <<src, runs, args, hashseed, note_list, stdout, i, page_sql_vals, todo>>

\* note.db is built in a temporary directory and copied into the archive
BuildNoteDb ==
    /\ pc = "db"
    /\ LET pdf_sql_vals == QueryDocuments(Current.uuid)
           pages == QueryPages(Current.uuid)
           img_sql_vals == ImageRows(pages)
       IN  /\ pdfs' = [k \in 1..Len(pdf_sql_vals) |-> pdf_sql_vals[k].documentId]
           /\ page_sql_vals' = pages
           /\ images' = [k \in 1..Len(img_sql_vals) |-> img_sql_vals[k].imageId]
    /\ disk' = [disk EXCEPT ![sn_file(Current)] =
                  [WriteMember(@, DbMember) EXCEPT !.db = <<NoteDb(Current, hashseed)>>]]
    /\ pc' = "pagesdir"
    /\ UNCHANGED <<src, runs, args, hashseed, note_list, stdout, i, todo>>

\* data/pages/.metadata is written and the set of the pages made
PagesDir ==
    /\ pc = "pagesdir"
    /\ disk' = [disk EXCEPT ![sn_file(Current)] = WriteMember(@, MetaMember("data/pages"))]
    /\ todo' = Dedup([k \in 1..Len(page_sql_vals) |-> page_sql_vals[k].id])
    /\ pc' = "pages"
    /\ UNCHANGED <<src, runs, args, hashseed, note_list, stdout, i, page_sql_vals,
                   images, pdfs>>

\* one turn of a copy loop that passes over a member missing from the backup
CopyAssetSkipMissing(name, at) ==
    /\ \/ /\ name \in src.members
          /\ disk' = [disk EXCEPT ![sn_file(Current)] = WriteMember(@, name)]
       \/ /\ name \notin src.members
          /\ disk' = disk
    /\ pc' = at
    /\ UNCHANGED <<src, runs, args, hashseed, note_list, stdout, i, page_sql_vals,
                   images, pdfs>>

\* one turn of a copy loop: the member is opened in the output archive, then
\* in the backup, where a missing member raises KeyError; the with statements
\* close the member and the archive, and the process ends
CopyAsset(name, at) ==
    /\ \/ /\ name \in src.members
          /\ disk' = [disk EXCEPT ![sn_file(Current)] = WriteMember(@, name)]
          /\ pc' = at
       \/ /\ name \notin src.members
          /\ disk' = [disk EXCEPT ![sn_file(Current)] =
                        [WriteEmpty(@, name) EXCEPT !.closed = TRUE]]
          /\ pc' = "failed"
    /\ UNCHANGED <<src, runs, args, hashseed, note_list, stdout, i, page_sql_vals,
                   images, pdfs>>

CopyPage ==
    /\ pc = "pages"
    /\ \E page \in BagToSet(todo) :
          /\ todo' = Rest(todo, page)
          /\ CopyAsset(PageMember(page), "pages")

\* data/imgs/.metadata is written and the set of the images made
ImgsDir ==
    /\ pc = "pages"
    /\ todo = EmptyBag
    /\ disk' = [disk EXCEPT ![sn_file(Current)] = WriteMember(@, MetaMember("data/imgs"))]
    /\ todo' = Dedup(images)
    /\ pc' = "imgs"
    /\ UNCHANGED <<src, runs, args, hashseed, note_list, stdout, i, page_sql_vals,
                   images, pdfs>>

CopyImage ==
    /\ pc = "imgs"
    /\ \E image \in BagToSet(todo) :
          /\ todo' = Rest(todo, image)
          /\ CopyAsset(ImageMember(image), "imgs")

\* data/docs/.metadata is written and the set of the documents made
DocsDir ==
    /\ pc = "imgs"
    /\ todo = EmptyBag
    /\ disk' = [disk EXCEPT ![sn_file(Current)] = WriteMember(@, MetaMember("data/docs"))]
    /\ todo' = Dedup(pdfs)
    /\ pc' = "docs"
    /\ UNCHANGED <<src, runs, args, hashseed, note_list, stdout, i, page_sql_vals,
                   images, pdfs>>

CopyDoc ==
    /\ pc = "docs"
    /\ \E pdf \in BagToSet(todo) :
          /\ todo' = Rest(todo, pdf)
          /\ CopyAsset(DocMember(pdf), "docs")

\* sn.close(), and on to the next note
CloseArchive ==
    /\ pc = "docs"
    /\ todo = EmptyBag
    /\ disk' = [disk EXCEPT ![sn_file(Current)].closed = TRUE]
    /\ i' = i + 1
    /\ pc' = "loop"
    /\ UNCHANGED <<src, runs, args, hashseed, note_list, stdout, page_sql_vals,
                   images, pdfs, todo>>

\* neither branch taken, or the loop over the notes is over: 'Finished'
Finish ==
    /\ \/ pc = "end"
       \/ pc = "loop" /\ i > Len(note_list)
    /\ pc' = "done"
    /\ UNCHANGED <<src, disk, runs, args, hashseed, note_list, stdout, i,
                   page_sql_vals, images, pdfs, todo>>

Next ==
    \/ Start
    \/ List
    \/ OpenArchive
    \/ BuildNoteDb
    \/ PagesDir
    \/ CopyPage
    \/ ImgsDir
    \/ CopyImage
    \/ DocsDir
    \/ CopyDoc
    \/ CloseArchive
    \/ Finish

Spec == Init /\ [][Next]_vars

SpecTwice == InitTwice /\ [][Next]_vars


\* ------------------------------------------------------------------------
\* Properties
\* ------------------------------------------------------------------------

Files == {disk[p] : p \in DOMAIN disk}

\* the note an output archive says it holds
NoteOf(f) == f.info[1].id

\* an output archive that is whole: closed, the three directories begun and
\* no member cut short
Complete(f) ==
    /\ f.closed
    /\ f.db /= <<>>
    /\ f.empty = {}
    /\ \A dir \in {"data/pages", "data/imgs", "data/docs"} :
          BagIn(MetaMember(dir), f.names)

\* the identifiers of the asset members of a directory of an output archive
AssetIds(f, dir) ==
    {name[2] : name \in {m \in BagToSet(f.names) : m[1] = dir /\ m[3] /= ".metadata"}}

Occurrences(rows, r) == Cardinality({k \in 1..Len(rows) : rows[k] = r})

Range(rows) == {rows[k] : k \in 1..Len(rows)}

\* C1 (as claimed): with --dry-run set, an invocation creates no output
\* archive on disk.
C1_DryRunWritesNoFile ==
    args.dry_run => DOMAIN disk = {}

\* C2 (as claimed): once the copy of an asset has failed on a member missing
\* from the backup, no output archive of that note is left on disk unless it
\* is whole.
C2_NoPartialOutput ==
    pc = "failed" =>
        \A f \in Files : NoteOf(f) = Current.uuid => Complete(f)

\* the note R is the only one whose identifier the pattern matches
OnlyIdMatch(R) ==
    /\ Match(Compile(args.regex), R.id)
    /\ \A O \in Range(src.note) : O.id /= R.id => ~Match(Compile(args.regex), O.id)

\* the other notes the pattern matches by their name or their time
MatchedOtherwise(R) ==
    {O.id : O \in {N \in Range(src.note) :
                     /\ N.id /= R.id
                     /\ \/ Match(Compile(args.regex), FixRow(N).nn)
                        \/ Match(Compile(args.regex), FixRow(N).mtime)}}

SelectedIds == {note_list[k].uuid : k \in 1..Len(note_list)}

\* C3 (as claimed): a pattern that matches the identifier of R and of no
\* other note selects R alone, whatever else the pattern matches.
C3_IdMatchSelectsSingleton ==
    pc /= "init" =>
        \A R \in Range(src.note) : OnlyIdMatch(R) => SelectedIds = {R.id}

\* C3 (amended): a pattern that matches the identifier of R and of no other
\* note selects R together with the notes whose name or formatted time it
\* matches from the start, each once; R alone when there are none.
C3_IdMatchSelectsAlsoByNameOrTime ==
    pc /= "init" =>
        \A R \in Range(src.note) :
            OnlyIdMatch(R) =>
                /\ SelectedIds = {R.id} \cup MatchedOtherwise(R)
                /\ Len(note_list) = Cardinality(SelectedIds)

C3_Witness ==
    /\ pc /= "init"
    /\ \E R \in Range(src.note) :
          /\ OnlyIdMatch(R)
          /\ MatchedOtherwise(R) = {}
          /\ Len(note_list) = 1
          /\ note_list[1].uuid = R.id

\* the identifiers of the image rows of the note.db of an output archive
ImageRowIds(f) == {f.db[1].image[k].imageId : k \in 1..Len(f.db[1].image)}

\* every image row has its member and every member its row
ImagesClosed(f) == ImageRowIds(f) = AssetIds(f, "data/imgs")

\* C4 (as claimed): in a whole output archive the image rows and the
\* data/imgs members correspond, and an image missing from the backup is
\* skipped without an error, so that no extraction ends on it.
C4_MissingImageSkipped ==
    /\ \A f \in Files : Complete(f) => ImagesClosed(f)
    /\ pc = "failed" => \A name \in sn.empty : name[1] /= "data/imgs"

\* C4 (amended): in a whole output archive the image rows and the data/imgs
\* members correspond and every one of these images is in the backup; an
\* archive whose note.db has a row of an image missing from the backup is
\* never whole.
C4_ImagesClosedWhenComplete ==
    \A f \in Files :
        /\ Complete(f) => ImagesClosed(f)
        /\ Complete(f) => \A im \in ImageRowIds(f) : ImageMember(im) \in src.members
        /\ f.db /= <<>> /\ (\E im \in ImageRowIds(f) : ImageMember(im) \notin src.members)
              => ~Complete(f)

C4_Witness ==
    \E f \in Files : Complete(f) /\ Cardinality(ImageRowIds(f)) >= 2

\* the pages of a note in the backup
PagesOf(uuid) == {r.id : r \in {q \in Range(src.page) : q.noteId = uuid}}

\* C5: an output archive holds a data/imgs member at most once, and once for
\* every image of its rows when it is whole, while its note.db holds every
\* image row of the pages of the note as often as the backup does; likewise
\* for the documents and data/docs.
C5_AssetsOnceRowsKept ==
    \A f \in Files :
        /\ \A name \in BagToSet(f.names) : CopiesIn(name, f.names) = 1
        /\ Complete(f) =>
              /\ AssetIds(f, "data/imgs") = ImageRowIds(f)
              /\ AssetIds(f, "data/docs")
                    = {f.db[1].document[k].documentId : k \in 1..Len(f.db[1].document)}
        /\ f.db /= <<>> =>
              /\ Len(f.db[1].image)
                    = Cardinality({k \in 1..Len(src.image) :
                                      src.image[k].pageId \in PagesOf(NoteOf(f))})
              /\ \A r \in Range(src.image) :
                    r.pageId \in PagesOf(NoteOf(f))
                        => Occurrences(f.db[1].image, r) = Occurrences(src.image, r)
              /\ Len(f.db[1].document)
                    = Cardinality({k \in 1..Len(src.document) :
                                      src.document[k].noteId = NoteOf(f)})
              /\ \A r \in Range(src.document) :
                    r.noteId = NoteOf(f)
                        => Occurrences(f.db[1].document, r) = Occurrences(src.document, r)

C5_Witness ==
    \E f \in Files :
        /\ Complete(f)
        /\ \E j, k \in 1..Len(f.db[1].image) :
              /\ j /= k
              /\ f.db[1].image[j].imageId = f.db[1].image[k].imageId
              /\ f.db[1].image[j].pageId /= f.db[1].image[k].pageId
              /\ CopiesIn(ImageMember(f.db[1].image[j].imageId), f.names) = 1

\* C6: without a pattern every note of the backup is selected once, the
\* selected notes are in ascending order of their modification time, and the
\* listing follows that order.
C6_NoPatternSelectsAllAscending ==
    (pc /= "init" /\ args.regex = <<>>) =>
        /\ Len(note_list) = Len(src.note)
        /\ SelectedIds = {r.id : r \in Range(src.note)}
        /\ \A j, k \in 1..Len(note_list) : j < k => note_list[j].ts <= note_list[k].ts
        /\ pc = "done" /\ args.list =>
              /\ Len(stdout) = Len(note_list)
              /\ \A k \in 1..Len(stdout) :
                    stdout[k][1] = k /\ stdout[k][3] = note_list[k].uuid

C6_Witness ==
    /\ pc = "done"
    /\ args.regex = <<>>
    /\ args.list
    /\ Len(stdout) = 2
    /\ note_list[1].uuid = src.note[2].id
    /\ note_list[1].ts < note_list[2].ts

\* C7 (as claimed): two whole output archives of the same note, written by
\* two invocations into two directories, have the same note.db, byte for
\* byte, and the same asset members.
C7_SameNoteSameOutput ==
    \A p, q \in DOMAIN disk :
        (p /= q /\ Complete(disk[p]) /\ Complete(disk[q])
              /\ NoteOf(disk[p]) = NoteOf(disk[q]))
            => /\ disk[p].db = disk[q].db
               /\ disk[p].names = disk[q].names

\* C8 (as claimed): an invocation with --all and without --list that has
\* finished has written an output archive for every note of the backup.
C8_AllExtractsEveryNote ==
    (pc = "done" /\ args.all /\ ~args.list) =>
        \A r \in Range(src.note) : \E f \in Files : Complete(f) /\ NoteOf(f) = r.id

\* C9 (as claimed): an extraction that has finished has left as many output
\* archives as there are selected notes, one whole archive for each.
C9_OneArchivePerNote ==
    (pc = "done" /\ args.extract /\ ~args.list) =>
        /\ Cardinality(DOMAIN disk) = Len(note_list)
        /\ \A k \in 1..Len(note_list) :
              \E f \in Files : Complete(f) /\ NoteOf(f) = note_list[k].uuid

\* the row of a page in the backup
SourcePage(id) == CHOOSE r \in Range(src.page) : r.id = id

\* the position of a page in the page table of the backup
PagePos(id) == CHOOSE k \in 1..Len(src.page) : src.page[k].id = id

\* the documentId of the last document row of a note in the backup, '' if none
LastDocOf(uuid) ==
    LET ks == {k \in 1..Len(src.document) : src.document[k].noteId = uuid}
    IN  IF ks = {} THEN ""
        ELSE src.document[CHOOSE k \in ks : \A j \in ks : j <= k].documentId

\* the page rows of an output archive are those of the note, in the order of
\* the backup
PagesInOrder(f) ==
    LET rows == f.db[1].page
    IN  /\ {rows[k].id : k \in 1..Len(rows)} = PagesOf(NoteOf(f))
        /\ \A j, k \in 1..Len(rows) : j < k => PagePos(rows[j].id) < PagePos(rows[k].id)

\* C10 (as claimed): an output page row keeps the documentId its page has in
\* the backup and gets that of the last document row of the note, or '',
\* only when the page has none; the rows keep the order of the backup.
C10_LastDocumentIsDefault ==
    \A f \in Files :
        f.db /= <<>> =>
            /\ \A r \in Range(f.db[1].page) :
                  r.documentId = IF SourcePage(r.id).documentId /= ""
                                 THEN SourcePage(r.id).documentId
                                 ELSE LastDocOf(NoteOf(f))
            /\ PagesInOrder(f)

\* C10 (amended): every output page row gets the documentId of the last
\* document row of the note, or '' when the note has none, whatever
\* documentId its page has in the backup; the rows keep the order of the
\* backup.
C10_LastDocumentOnEveryPage ==
    \A f \in Files :
        f.db /= <<>> =>
            /\ \A r \in Range(f.db[1].page) : r.documentId = LastDocOf(NoteOf(f))
            /\ PagesInOrder(f)

C10_Witness ==
    \E f \in Files :
        /\ f.db /= <<>>
        /\ Len(f.db[1].page) = 2
        /\ Len(f.db[1].document) = 2
        /\ f.db[1].document[1].documentId /= f.db[1].document[2].documentId
        /\ \E r \in Range(f.db[1].page) :
              /\ SourcePage(r.id).documentId /= ""
              /\ r.documentId /= SourcePage(r.id).documentId

====
